---- MODULE Spec2Model ----
(***************************************************************************)
(* Model of the go-middleware package: the concurrent Metrics aggregator   *)
(* (metrics file, src/unnamed/part_000) and the gin middleware chain with  *)
(* its response interceptor (src/middleware/Middleware.go).                *)
(*                                                                         *)
(* Every goroutine is a process p \in Procs.  One action is one access to  *)
(* shared memory (an atomic operation, a mutex operation, a map access     *)
(* under the mutex) together with the local computation that follows it.   *)
(***************************************************************************)
EXTENDS Integers, Sequences, FiniteSets, TLC

\* ------------------------------------------------------------------ bounds
NumProcs == 2        \* goroutines calling into the package concurrently
MaxCalls == 3        \* RecordRequest calls issued in one behaviour
MaxSnapshots == 1    \* GetMetrics calls issued in one behaviour
LiveCalls == 2       \* RecordRequest calls issued in one fair behaviour
MaxDur == 2          \* latencies are 0..MaxDur steps of DurStep nanoseconds
MaxRequests == 2     \* requests served by the middleware chain in one behaviour
MaxWrites == 2       \* calls a handler makes on the response writer
MaxTicks == 1        \* steps of DurStep nanoseconds the clock advances

Procs == 1..NumProcs

\* One and a half milliseconds, in nanoseconds (the unit of time.Duration):
\* the latencies of the model are not all whole milliseconds.
DurStep == 1500000
Durations == {k * DurStep : k \in 0..MaxDur}

Methods == {"GET", "POST"}
StatusCodes == {399, 400}

\* ^uint64(0), the initial MinLatency.  The model's integers are 32 bits
\* wide, so the sentinel is the largest of them; every latency and every
\* counter of the model stays far below it.
MaxUint64 == 2147483647

\* time.Duration.Milliseconds: nanoseconds to whole milliseconds, truncating.
Milliseconds(d) == d \div 1000000

\* ------------------------------------------------------------------- state
VARIABLES
  \* fields of the Metrics struct
  TotalRequests, ErrorCount, TotalLatency, MinLatency, MaxLatency,
  MethodCounts, StatusCodeCounts, mu, TotalDuration,
  \* position of every goroutine
  pc,
  \* parameters and locals of RecordRequest
  method, statusCode, latency, latencyMs, current,
  \* locals and result of GetMetrics
  methodCounts, statusCodeCounts, loadedTotal, loadedDuration, result,
  \* history: the RecordRequest calls issued so far (how many with each
  \* triple of arguments), the number of GetMetrics calls issued, and for a
  \* goroutine inside GetMetrics whether no RecordRequest call has been in
  \* flight since its call began
  issued, snapshots, quiet,
  \* the clock read by time.Now and time.Since, in nanoseconds
  now,
  \* one request in the middleware chain: c.Request.Method, the "startTime"
  \* key of the gin context, the locals duration and bodyWriter of
  \* LogResponseMiddleware
  reqMethod, startTime, duration, bodyWriter,
  \* history: the requests accepted so far, and the calls the handler has
  \* made on the interceptor of its request
  requests, wcalls,
  \* the ids handed out so far by the uuid source; of one request: the
  \* "requestID" key of the gin context, c.Request.Body (the bytes still to
  \* be read) and the Content-Type header; and the calls made on the Logger
  \* for the request
  uuids, requestID, Body, ContentType, logged

metricsVars == <<TotalRequests, ErrorCount, TotalLatency, MinLatency,
                 MaxLatency, MethodCounts, StatusCodeCounts, mu,
                 TotalDuration>>
recordVars == <<method, statusCode, latency, latencyMs, current>>
snapshotVars == <<methodCounts, statusCodeCounts, loadedTotal, loadedDuration,
                  result>>
historyVars == <<issued, snapshots, quiet>>
requestVars == <<uuids, requestID, Body, ContentType, logged>>
chainVars == <<now, reqMethod, startTime, duration, bodyWriter, requests,
               wcalls, requestVars>>
vars == <<metricsVars, pc, recordVars, snapshotVars, historyVars, chainVars>>

\* ----------------------------------------------------------------- helpers
\* A Go map: a function whose domain is the set of keys present.
EmptyMap == [k \in {} |-> 0]

\* m[k]++ on a Go map: a missing key reads as 0 and is created.
MapInc(m, k) ==
  IF k \in DOMAIN m THEN [m EXCEPT ![k] = @ + 1] ELSE m @@ (k :> 1)

RECURSIVE SumOver(_, _)
SumOver(f, S) ==
  IF S = {} THEN 0
  ELSE LET k == CHOOSE x \in S : TRUE IN f[k] + SumOver(f, S \ {k})

\* Sum of the values of a map.
MapSum(m) == SumOver(m, DOMAIN m)

\* A call that is not running has no locals, and a local that will not be
\* read again before it is assigned is dead: both are kept at the zero value
\* of their type (0, "", the nil map).  NoResult is the nil map, held by a
\* goroutine that has no result of GetMetrics in hand.
NoResult == EmptyMap

\* Go's integer division: a zero divisor is a run-time panic, which no
\* quotient of the model equals.
Panic == -1
Div(a, b) == IF b = 0 THEN Panic ELSE a \div b

InRecord(p) == pc[p] \in {"rr_err", "rr_lat", "rr_min_load", "rr_min_cas",
                          "rr_max_load", "rr_max_cas", "rr_lock",
                          "rr_method", "rr_status", "rr_unlock"}
InSnapshot(p) == pc[p] \in {"gm_rlock", "gm_copy_method", "gm_copy_status",
                            "gm_runlock", "gm_total", "gm_duration",
                            "gm_return"}

\* Number of RecordRequest calls issued so far.
NumIssued == SumOver(issued, DOMAIN issued)


\* ------------------------------------------------------------------- Init
\* NewMetrics: empty maps, MinLatency at the sentinel, every other field zero.
NewMetrics ==
  /\ TotalRequests = 0
  /\ ErrorCount = 0
  /\ TotalLatency = 0
  /\ MinLatency = MaxUint64
  /\ MaxLatency = 0
  /\ MethodCounts = EmptyMap
  /\ StatusCodeCounts = EmptyMap
  /\ mu = [locked |-> FALSE, readers |-> 0]
  /\ TotalDuration = 0

NoCalls ==
  /\ pc = [p \in Procs |-> "idle"]
  /\ method = [p \in Procs |-> ""]
  /\ statusCode = [p \in Procs |-> 0]
  /\ latency = [p \in Procs |-> 0]
  /\ latencyMs = [p \in Procs |-> 0]
  /\ current = [p \in Procs |-> 0]
  /\ methodCounts = [p \in Procs |-> EmptyMap]
  /\ statusCodeCounts = [p \in Procs |-> EmptyMap]
  /\ loadedTotal = [p \in Procs |-> 0]
  /\ loadedDuration = [p \in Procs |-> 0]
  /\ result = [p \in Procs |-> NoResult]
  /\ issued = EmptyMap
  /\ snapshots = 0
  /\ quiet = [p \in Procs |-> FALSE]

\* The gin.ResponseWriter under the interceptor, as what it has received: the
\* codes of the WriteHeader calls and the bytes of the Write calls.
NoSink == [headers |-> <<>>, bytes |-> <<>>]

\* &ResponseWriter{ResponseWriter: c.Writer, body: bytes.NewBufferString("")}:
\* statusCode and wroteHeader have their zero values.
NewResponseWriter ==
  [ResponseWriter |-> NoSink, body |-> <<>>, statusCode |-> 0,
   wroteHeader |-> FALSE]

\* No request is in the chain.
NoRequests ==
  /\ now = 0
  /\ reqMethod = [p \in Procs |-> ""]
  /\ startTime = [p \in Procs |-> 0]
  /\ duration = [p \in Procs |-> 0]
  /\ bodyWriter = [p \in Procs |-> NewResponseWriter]
  /\ requests = 0
  /\ wcalls = [p \in Procs |-> <<>>]
  /\ uuids = 0
  /\ requestID = [p \in Procs |-> 0]
  /\ Body = [p \in Procs |-> <<>>]
  /\ ContentType = [p \in Procs |-> <<>>]
  /\ logged = [p \in Procs |-> <<>>]

Init == NewMetrics /\ NoCalls /\ NoRequests

\* ---------------------------------------------------------- RecordRequest
\* A test that lets the status code 400 through.
IsError_Above(s) == s > 400

\* The test of the ErrorCount statement: statusCode >= 400.
IsError(s) == s >= 400

\* An entry that leaves TotalRequests as it is.
EnterRecordRequest_NoCount(p, m, s, d) ==
  /\ TotalRequests' = TotalRequests
  /\ method' = [method EXCEPT ![p] = m]
  /\ statusCode' = [statusCode EXCEPT ![p] = s]
  /\ latency' = [latency EXCEPT ![p] = d]
  /\ pc' = [pc EXCEPT ![p] = IF IsError(s) THEN "rr_err" ELSE "rr_lat"]
  /\ issued' = MapInc(issued, <<m, s, d>>)
  /\ quiet' = [q \in Procs |-> FALSE]

\* Entry of RecordRequest and its first statement,
\* atomic.AddUint64(&m.TotalRequests, 1).
EnterRecordRequest(p, m, s, d) ==
  /\ TotalRequests' = TotalRequests + 1
  /\ method' = [method EXCEPT ![p] = m]
  /\ statusCode' = [statusCode EXCEPT ![p] = s]
  /\ latency' = [latency EXCEPT ![p] = d]
  /\ pc' = [pc EXCEPT ![p] = IF IsError(s) THEN "rr_err" ELSE "rr_lat"]
  /\ issued' = MapInc(issued, <<m, s, d>>)
  /\ quiet' = [q \in Procs |-> FALSE]

\* A goroutine calls m.RecordRequest(method, statusCode, latency) directly.
RecordRequest(p, m, s, d) ==
  /\ pc[p] = "idle"
  /\ NumIssued < MaxCalls
  /\ EnterRecordRequest(p, m, s, d)
  /\ result' = [result EXCEPT ![p] = NoResult]
  /\ UNCHANGED <<ErrorCount, TotalLatency, MinLatency, MaxLatency,
                 MethodCounts, StatusCodeCounts, mu, TotalDuration>>
  /\ UNCHANGED <<latencyMs, current, snapshots>>
  /\ UNCHANGED <<methodCounts, statusCodeCounts, loadedTotal, loadedDuration>>
  /\ UNCHANGED chainVars

\* if statusCode >= 400 { atomic.AddUint64(&m.ErrorCount, 1) }
AddErrorCount(p) ==
  /\ pc[p] = "rr_err"
  /\ ErrorCount' = ErrorCount + 1
  /\ pc' = [pc EXCEPT ![p] = "rr_lat"]
  /\ UNCHANGED <<TotalRequests, TotalLatency, MinLatency, MaxLatency,
                 MethodCounts, StatusCodeCounts, mu, TotalDuration>>
  /\ UNCHANGED <<recordVars, snapshotVars, historyVars>>
  /\ UNCHANGED chainVars

\* latencyMs := uint64(latency.Milliseconds())
\* atomic.AddUint64(&m.TotalLatency, latencyMs)
AddTotalLatency(p) ==
  /\ pc[p] = "rr_lat"
  /\ latencyMs' = [latencyMs EXCEPT ![p] = Milliseconds(latency[p])]
  /\ latency' = [latency EXCEPT ![p] = 0]
  /\ TotalLatency' = TotalLatency + Milliseconds(latency[p])
  /\ pc' = [pc EXCEPT ![p] = "rr_min_load"]
  /\ UNCHANGED <<TotalRequests, ErrorCount, MinLatency, MaxLatency,
                 MethodCounts, StatusCodeCounts, mu, TotalDuration>>
  /\ UNCHANGED <<method, statusCode, current>>
  /\ UNCHANGED <<snapshotVars, historyVars>>
  /\ UNCHANGED chainVars

\* The test of the MinLatency loop: current == 0 || latencyMs < current.
MinNeedsUpdate(cur, ms) == cur = 0 \/ ms < cur

\* current := atomic.LoadUint64(&m.MinLatency), and the test on it: the loop
\* goes on to the compare-and-swap or is left.
LoadMinLatency(p) ==
  /\ pc[p] = "rr_min_load"
  /\ IF MinNeedsUpdate(MinLatency, latencyMs[p])
     THEN /\ current' = [current EXCEPT ![p] = MinLatency]
          /\ pc' = [pc EXCEPT ![p] = "rr_min_cas"]
     ELSE /\ current' = [current EXCEPT ![p] = 0]
          /\ pc' = [pc EXCEPT ![p] = "rr_max_load"]
  /\ UNCHANGED <<metricsVars, method, statusCode, latency, latencyMs>>
  /\ UNCHANGED <<snapshotVars, historyVars>>
  /\ UNCHANGED chainVars

\* atomic.CompareAndSwapUint64(&m.MinLatency, current, latencyMs): the loop
\* is left when the swap succeeds and repeated when it fails.
CasMinLatency(p) ==
  /\ pc[p] = "rr_min_cas"
  /\ \/ /\ MinLatency = current[p]
        /\ MinLatency' = latencyMs[p]
        /\ pc' = [pc EXCEPT ![p] = "rr_max_load"]
     \/ /\ MinLatency # current[p]
        /\ MinLatency' = MinLatency
        /\ pc' = [pc EXCEPT ![p] = "rr_min_load"]
  /\ current' = [current EXCEPT ![p] = 0]
  /\ UNCHANGED <<TotalRequests, ErrorCount, TotalLatency, MaxLatency,
                 MethodCounts, StatusCodeCounts, mu, TotalDuration>>
  /\ UNCHANGED <<method, statusCode, latency, latencyMs>>
  /\ UNCHANGED <<snapshotVars, historyVars>>
  /\ UNCHANGED chainVars

\* The test of the MaxLatency loop: latencyMs > current.
MaxNeedsUpdate(cur, ms) == ms > cur

\* current := atomic.LoadUint64(&m.MaxLatency), and the test on it.
LoadMaxLatency(p) ==
  /\ pc[p] = "rr_max_load"
  /\ IF MaxNeedsUpdate(MaxLatency, latencyMs[p])
     THEN /\ current' = [current EXCEPT ![p] = MaxLatency]
          /\ pc' = [pc EXCEPT ![p] = "rr_max_cas"]
     ELSE /\ current' = [current EXCEPT ![p] = 0]
          /\ pc' = [pc EXCEPT ![p] = "rr_lock"]
  /\ UNCHANGED <<metricsVars, method, statusCode, latency, latencyMs>>
  /\ UNCHANGED <<snapshotVars, historyVars>>
  /\ UNCHANGED chainVars

\* A compare-and-swap that leaves the loop even when the swap fails.
CasMaxLatency_GiveUp(p) ==
  /\ pc[p] = "rr_max_cas"
  /\ \/ /\ MaxLatency = current[p]
        /\ MaxLatency' = latencyMs[p]
     \/ /\ MaxLatency # current[p]
        /\ MaxLatency' = MaxLatency
  /\ pc' = [pc EXCEPT ![p] = "rr_lock"]
  /\ current' = [current EXCEPT ![p] = 0]
  /\ UNCHANGED <<TotalRequests, ErrorCount, TotalLatency, MinLatency,
                 MethodCounts, StatusCodeCounts, mu, TotalDuration>>
  /\ UNCHANGED <<method, statusCode, latency, latencyMs>>
  /\ UNCHANGED <<snapshotVars, historyVars>>
  /\ UNCHANGED chainVars

\* atomic.CompareAndSwapUint64(&m.MaxLatency, current, latencyMs)
CasMaxLatency(p) ==
  /\ pc[p] = "rr_max_cas"
  /\ \/ /\ MaxLatency = current[p]
        /\ MaxLatency' = latencyMs[p]
        /\ pc' = [pc EXCEPT ![p] = "rr_lock"]
     \/ /\ MaxLatency # current[p]
        /\ MaxLatency' = MaxLatency
        /\ pc' = [pc EXCEPT ![p] = "rr_max_load"]
  /\ current' = [current EXCEPT ![p] = 0]
  /\ UNCHANGED <<TotalRequests, ErrorCount, TotalLatency, MinLatency,
                 MethodCounts, StatusCodeCounts, mu, TotalDuration>>
  /\ UNCHANGED <<method, statusCode, latency, latencyMs>>
  /\ UNCHANGED <<snapshotVars, historyVars>>
  /\ UNCHANGED chainVars

\* A Lock that waits for the writer only, not for the readers.
Lock_IgnoreReaders(p) ==
  /\ pc[p] = "rr_lock"
  /\ ~mu.locked
  /\ mu' = [mu EXCEPT !.locked = TRUE]
  /\ pc' = [pc EXCEPT ![p] = "rr_method"]
  /\ UNCHANGED <<TotalRequests, ErrorCount, TotalLatency, MinLatency,
                 MaxLatency, MethodCounts, StatusCodeCounts, TotalDuration>>
  /\ UNCHANGED <<recordVars, snapshotVars, historyVars>>
  /\ UNCHANGED chainVars

\* m.mu.Lock(): waits until no writer and no reader holds the mutex.
Lock(p) ==
  /\ pc[p] = "rr_lock"
  /\ ~mu.locked
  /\ mu.readers = 0
  /\ mu' = [mu EXCEPT !.locked = TRUE]
  /\ pc' = [pc EXCEPT ![p] = "rr_method"]
  /\ UNCHANGED <<TotalRequests, ErrorCount, TotalLatency, MinLatency,
                 MaxLatency, MethodCounts, StatusCodeCounts, TotalDuration>>
  /\ UNCHANGED <<recordVars, snapshotVars, historyVars>>
  /\ UNCHANGED chainVars

\* A store of 1 in place of the increment.
IncMethodCounts_Store(p) ==
  /\ pc[p] = "rr_method"
  /\ MethodCounts' = (method[p] :> 1) @@ MethodCounts
  /\ pc' = [pc EXCEPT ![p] = "rr_status"]
  /\ UNCHANGED <<TotalRequests, ErrorCount, TotalLatency, MinLatency,
                 MaxLatency, StatusCodeCounts, mu, TotalDuration>>
  /\ UNCHANGED <<recordVars, snapshotVars, historyVars>>
  /\ UNCHANGED chainVars

\* m.MethodCounts[method]++
IncMethodCounts(p) ==
  /\ pc[p] = "rr_method"
  /\ MethodCounts' = MapInc(MethodCounts, method[p])
  /\ pc' = [pc EXCEPT ![p] = "rr_status"]
  /\ UNCHANGED <<TotalRequests, ErrorCount, TotalLatency, MinLatency,
                 MaxLatency, StatusCodeCounts, mu, TotalDuration>>
  /\ UNCHANGED <<recordVars, snapshotVars, historyVars>>
  /\ UNCHANGED chainVars

\* m.StatusCodeCounts[statusCode]++
IncStatusCodeCounts(p) ==
  /\ pc[p] = "rr_status"
  /\ StatusCodeCounts' = MapInc(StatusCodeCounts, statusCode[p])
  /\ pc' = [pc EXCEPT ![p] = "rr_unlock"]
  /\ UNCHANGED <<TotalRequests, ErrorCount, TotalLatency, MinLatency,
                 MaxLatency, MethodCounts, mu, TotalDuration>>
  /\ UNCHANGED <<recordVars, snapshotVars, historyVars>>
  /\ UNCHANGED chainVars

\* Where RecordRequest returns to: its direct caller.
AfterRecordRequest(p) == "idle"

\* A return that leaves the mutex locked.
Unlock_Forgotten(p) ==
  /\ pc[p] = "rr_unlock"
  /\ pc' = [pc EXCEPT ![p] = AfterRecordRequest(p)]
  /\ method' = [method EXCEPT ![p] = ""]
  /\ statusCode' = [statusCode EXCEPT ![p] = 0]
  /\ latency' = [latency EXCEPT ![p] = 0]
  /\ latencyMs' = [latencyMs EXCEPT ![p] = 0]
  /\ current' = [current EXCEPT ![p] = 0]
  /\ UNCHANGED <<metricsVars, snapshotVars, historyVars>>
  /\ UNCHANGED chainVars

\* m.mu.Unlock(), and the return of RecordRequest.
Unlock(p) ==
  /\ pc[p] = "rr_unlock"
  /\ mu' = [mu EXCEPT !.locked = FALSE]
  /\ pc' = [pc EXCEPT ![p] = AfterRecordRequest(p)]
  /\ method' = [method EXCEPT ![p] = ""]
  /\ statusCode' = [statusCode EXCEPT ![p] = 0]
  /\ latency' = [latency EXCEPT ![p] = 0]
  /\ latencyMs' = [latencyMs EXCEPT ![p] = 0]
  /\ current' = [current EXCEPT ![p] = 0]
  /\ UNCHANGED <<TotalRequests, ErrorCount, TotalLatency, MinLatency,
                 MaxLatency, MethodCounts, StatusCodeCounts, TotalDuration>>
  /\ UNCHANGED <<snapshotVars, historyVars>>
  /\ UNCHANGED chainVars


\* ------------------------------------------------------------- GetMetrics
\* A goroutine calls m.GetMetrics().
GetMetrics(p) ==
  /\ pc[p] = "idle"
  /\ snapshots < MaxSnapshots
  /\ snapshots' = snapshots + 1
  /\ pc' = [pc EXCEPT ![p] = "gm_rlock"]
  /\ result' = [result EXCEPT ![p] = NoResult]
  /\ quiet' = [quiet EXCEPT ![p] = \A q \in Procs : ~InRecord(q)]
  /\ UNCHANGED <<metricsVars, recordVars, issued>>
  /\ UNCHANGED <<methodCounts, statusCodeCounts, loadedTotal, loadedDuration>>
  /\ UNCHANGED chainVars

\* An RLock that does not wait for the writer.
RLock_IgnoreWriter(p) ==
  /\ pc[p] = "gm_rlock"
  /\ mu' = [mu EXCEPT !.readers = @ + 1]
  /\ pc' = [pc EXCEPT ![p] = "gm_copy_method"]
  /\ UNCHANGED <<TotalRequests, ErrorCount, TotalLatency, MinLatency,
                 MaxLatency, MethodCounts, StatusCodeCounts, TotalDuration>>
  /\ UNCHANGED <<recordVars, snapshotVars, historyVars>>
  /\ UNCHANGED chainVars

\* m.mu.RLock(): waits until no writer holds the mutex.
RLock(p) ==
  /\ pc[p] = "gm_rlock"
  /\ ~mu.locked
  /\ mu' = [mu EXCEPT !.readers = @ + 1]
  /\ pc' = [pc EXCEPT ![p] = "gm_copy_method"]
  /\ UNCHANGED <<TotalRequests, ErrorCount, TotalLatency, MinLatency,
                 MaxLatency, MethodCounts, StatusCodeCounts, TotalDuration>>
  /\ UNCHANGED <<recordVars, snapshotVars, historyVars>>
  /\ UNCHANGED chainVars

\* methodCounts := make(...); for k, v := range m.MethodCounts { ... }
CopyMethodCounts(p) ==
  /\ pc[p] = "gm_copy_method"
  /\ methodCounts' = [methodCounts EXCEPT
                        ![p] = [k \in DOMAIN MethodCounts |-> MethodCounts[k]]]
  /\ pc' = [pc EXCEPT ![p] = "gm_copy_status"]
  /\ UNCHANGED <<metricsVars, recordVars, historyVars>>
  /\ UNCHANGED <<statusCodeCounts, loadedTotal, loadedDuration, result>>
  /\ UNCHANGED chainVars

\* statusCodeCounts := make(...); for k, v := range m.StatusCodeCounts { ... }
CopyStatusCodeCounts(p) ==
  /\ pc[p] = "gm_copy_status"
  /\ statusCodeCounts' =
       [statusCodeCounts EXCEPT
          ![p] = [k \in DOMAIN StatusCodeCounts |-> StatusCodeCounts[k]]]
  /\ pc' = [pc EXCEPT ![p] = "gm_runlock"]
  /\ UNCHANGED <<metricsVars, recordVars, historyVars>>
  /\ UNCHANGED <<methodCounts, loadedTotal, loadedDuration, result>>
  /\ UNCHANGED chainVars

\* m.mu.RUnlock()
RUnlock(p) ==
  /\ pc[p] = "gm_runlock"
  /\ mu' = [mu EXCEPT !.readers = @ - 1]
  /\ pc' = [pc EXCEPT ![p] = "gm_total"]
  /\ UNCHANGED <<TotalRequests, ErrorCount, TotalLatency, MinLatency,
                 MaxLatency, MethodCounts, StatusCodeCounts, TotalDuration>>
  /\ UNCHANGED <<recordVars, snapshotVars, historyVars>>
  /\ UNCHANGED chainVars

\* "total_requests": atomic.LoadUint64(&m.TotalRequests)
LoadTotalRequests(p) ==
  /\ pc[p] = "gm_total"
  /\ loadedTotal' = [loadedTotal EXCEPT ![p] = TotalRequests]
  /\ pc' = [pc EXCEPT ![p] = "gm_duration"]
  /\ UNCHANGED <<metricsVars, recordVars, historyVars>>
  /\ UNCHANGED <<methodCounts, statusCodeCounts, loadedDuration, result>>
  /\ UNCHANGED chainVars

\* atomic.LoadUint64(&m.TotalDuration), the dividend of the average
LoadTotalDuration(p) ==
  /\ pc[p] = "gm_duration"
  /\ loadedDuration' = [loadedDuration EXCEPT ![p] = TotalDuration]
  /\ pc' = [pc EXCEPT ![p] = "gm_return"]
  /\ UNCHANGED <<metricsVars, recordVars, historyVars>>
  /\ UNCHANGED <<methodCounts, statusCodeCounts, loadedTotal, result>>
  /\ UNCHANGED chainVars

\* An average that divides by the number of requests itself.
AverageDuration_NoGuard(dur, reqs) == Div(dur, reqs)

\* TotalDuration / (TotalRequests + 1)
AverageDuration(dur, reqs) == Div(dur, reqs + 1)

\* The second atomic.LoadUint64(&m.TotalRequests), the division, and the
\* return of the map literal.
ReturnMetrics(p) ==
  /\ pc[p] = "gm_return"
  /\ result' = [result EXCEPT ![p] =
       [total_requests |-> loadedTotal[p],
        method_counts |-> methodCounts[p],
        status_code_counts |-> statusCodeCounts[p],
        average_duration_ms |->
          AverageDuration(loadedDuration[p], TotalRequests)]]
  /\ pc' = [pc EXCEPT ![p] = "idle"]
  /\ methodCounts' = [methodCounts EXCEPT ![p] = EmptyMap]
  /\ statusCodeCounts' = [statusCodeCounts EXCEPT ![p] = EmptyMap]
  /\ loadedTotal' = [loadedTotal EXCEPT ![p] = 0]
  /\ loadedDuration' = [loadedDuration EXCEPT ![p] = 0]
  /\ quiet' = [quiet EXCEPT ![p] = FALSE]
  /\ UNCHANGED <<metricsVars, recordVars, issued, snapshots>>
  /\ UNCHANGED chainVars

\* -------------------------------------------------------- ResponseWriter
\* Status codes a handler writes, and the byte slices it writes.
\* Texts are sequences of bytes.  The bytes json.Compact tells apart in the
\* texts of the model: the space, the double quote and the two brackets of
\* an array; Letter is any other byte.
Space == 32
Quote == 34
LeftBracket == 91
RightBracket == 93
Letter == 120

\* strings.HasPrefix
HasPrefix(t, prefix) ==
  /\ Len(t) >= Len(prefix)
  /\ SubSeq(t, 1, Len(prefix)) = prefix

\* Header values are sequences of words; "multipart/form-data" is one word.
Multipart == <<"multipart/form-data">>

\* A test for the media type alone, with no parameter after it.
isMultipartForm_Exact(contentType) == contentType = Multipart

\* isMultipartForm(contentType)
isMultipartForm(contentType) == HasPrefix(contentType, Multipart)

\* The scan of json.Compact: bytes are copied, the spaces outside strings
\* dropped; q tells whether the scan is inside a string.
RECURSIVE Compact(_, _)
Compact(t, q) ==
  IF t = <<>> THEN <<>>
  ELSE LET c == Head(t)
       IN IF c = Quote THEN <<c>> \o Compact(Tail(t), ~q)
          ELSE IF c = Space /\ ~q THEN Compact(Tail(t), q)
          ELSE <<c>> \o Compact(Tail(t), q)

\* A compacted text that is a JSON string.
IsString(t) ==
  /\ Len(t) >= 2
  /\ t[1] = Quote
  /\ t[Len(t)] = Quote
  /\ \A i \in 2..(Len(t) - 1) : t[i] # Quote

\* The JSON values of the model, compacted: a string, the empty array, an
\* array of one string.  json.Compact fails on every other text.
IsJSON(t) ==
  \/ IsString(t)
  \/ t = <<LeftBracket, RightBracket>>
  \/ /\ Len(t) >= 4
     /\ t[1] = LeftBracket
     /\ t[Len(t)] = RightBracket
     /\ IsString(SubSeq(t, 2, Len(t) - 1))

\* compactJSON(data): "" for "", the compacted text when json.Compact
\* succeeds, data itself when it fails.
compactJSON(data) ==
  IF data = <<>> THEN <<>>
  ELSE IF IsJSON(Compact(data, FALSE)) THEN Compact(data, FALSE)
  ELSE data

\* Request bodies: none, an array with spaces outside and inside its string,
\* a text that is not JSON.
Bodies == {<<>>,
           <<LeftBracket, Space, Quote, Space, Quote, RightBracket>>,
           <<Letter, Space, Letter>>}

\* Content-Type headers: a multipart upload with its boundary, and JSON.
ContentTypes == {<<"multipart/form-data", "; boundary=x">>,
                 <<"application/json">>}

\* uuid.New().String() and uuid.NewString(): the next id of a source that
\* never gives one id twice; 0 is the empty string, no id.
NewUUID == uuids + 1

\* An id that is always new.
IdOrNew_Always(id) == NewUUID

\* requestID := c.GetString("requestID"); if requestID == "" { a new id }
IdOrNew(id) == IF id = 0 THEN NewUUID ELSE id

\* One call on the Logger: LogRequest and LogResponse with the RequestID,
\* StatusCode, Request or Response text and ProcessTime of their LogEntry,
\* LogError with the id it is given.
Entry(ev, id, code, text, time) ==
  [ev |-> ev, RequestID |-> id, StatusCode |-> code, Text |-> text,
   ProcessTime |-> time]

\* c.Writer.Status() of a response nothing was written to.
DefaultStatus == 200

\* The body of the error response: the fixed message and the request_id.
ErrorBody(id) == <<LeftBracket, id, RightBracket>>

Codes == StatusCodes
Chunks == {<<LeftBracket>>, <<Space, RightBracket>>}

\* A WriteHeader that records and forwards every code it is given.
ResponseWriter_WriteHeader_Always(w, code) ==
  [w EXCEPT !.statusCode = code,
            !.wroteHeader = TRUE,
            !.ResponseWriter.headers = Append(@, code)]

\* (w *ResponseWriter) WriteHeader(code): the interceptor after the call.
ResponseWriter_WriteHeader(w, code) ==
  IF ~w.wroteHeader
  THEN [w EXCEPT !.statusCode = code,
                 !.wroteHeader = TRUE,
                 !.ResponseWriter.headers = Append(@, code)]
  ELSE w

\* A Write that buffers the bytes and does not forward them.
ResponseWriter_Write_BufferOnly(w, b) ==
  LET h == IF ~w.wroteHeader THEN ResponseWriter_WriteHeader(w, 200) ELSE w
  IN [h EXCEPT !.body = @ \o b]

\* (w *ResponseWriter) Write(b): the interceptor after the call.
ResponseWriter_Write(w, b) ==
  LET h == IF ~w.wroteHeader THEN ResponseWriter_WriteHeader(w, 200) ELSE w
  IN [h EXCEPT !.body = @ \o b, !.ResponseWriter.bytes = @ \o b]

\* ------------------------------------------------------- middleware chain
\* Positions of a request in the chain before it calls RecordRequest.
InChain(p) == pc[p] \in {"lq_start", "lr_start", "handler", "lr_add_total",
                         "lr_add_duration", "lr_record", "rc_fault",
                         "rc_done"}

\* Time passes while a request is in the chain.
Tick ==
  /\ \E p \in Procs : InChain(p)
  /\ now < MaxTicks * DurStep
  /\ now' = now + DurStep
  /\ UNCHANGED <<metricsVars, pc, recordVars, snapshotVars, historyVars>>
  /\ UNCHANGED <<reqMethod, startTime, duration, bodyWriter, requests, wcalls>>
  /\ UNCHANGED requestVars

\* A request with method m, body b and Content-Type ct enters the chain:
\* RecoveryMiddleware runs its function inside safe.SafeGo, which first
\* calls it with no error: it calls c.Next(), and LogRequestMiddleware
\* begins.  The gin context of the request is new: it holds no key.
RecoveryMiddleware(p, m, b, ct) ==
  /\ pc[p] = "idle"
  /\ requests < MaxRequests
  /\ requests' = requests + 1
  /\ reqMethod' = [reqMethod EXCEPT ![p] = m]
  /\ Body' = [Body EXCEPT ![p] = b]
  /\ ContentType' = [ContentType EXCEPT ![p] = ct]
  /\ UNCHANGED <<uuids, requestID, logged>>
  /\ result' = [result EXCEPT ![p] = NoResult]
  /\ pc' = [pc EXCEPT ![p] = "lq_start"]
  /\ UNCHANGED <<metricsVars, recordVars, historyVars>>
  /\ UNCHANGED <<methodCounts, statusCodeCounts, loadedTotal, loadedDuration>>
  /\ UNCHANGED <<now, startTime, duration, bodyWriter, wcalls>>

\* The body LogRequestMiddleware reads for its entry: the whole of
\* c.Request.Body, or nothing when the request is a multipart upload.  Every
\* request of the model has a Body, as every request of a server has.
ReadBody(body, contentType) ==
  IF ~isMultipartForm(contentType) THEN body ELSE <<>>

\* LogRequestMiddleware: start := time.Now(); c.Set("startTime", start); a new
\* id is stored under "requestID"; the body is read and a buffer of the
\* bytes read put in its place; the request is logged and c.Next() enters
\* LogResponseMiddleware.
LogRequestMiddleware(p) ==
  LET requestBody == ReadBody(Body[p], ContentType[p])
  IN /\ pc[p] = "lq_start"
     /\ startTime' = [startTime EXCEPT ![p] = now]
     /\ uuids' = uuids + 1
     /\ requestID' = [requestID EXCEPT ![p] = NewUUID]
     /\ Body' = [Body EXCEPT
                   ![p] = IF ~isMultipartForm(ContentType[p])
                          THEN requestBody ELSE @]
     /\ logged' = [logged EXCEPT
                     ![p] = Append(@, Entry("LogRequest", NewUUID,
                                            DefaultStatus,
                                            compactJSON(requestBody),
                                            0))]
     /\ pc' = [pc EXCEPT ![p] = "lr_start"]
     /\ UNCHANGED <<metricsVars, recordVars, snapshotVars, historyVars>>
     /\ UNCHANGED <<now, reqMethod, duration, bodyWriter, requests, wcalls>>
     /\ UNCHANGED ContentType

\* LogResponseMiddleware up to c.Next(): duration := time.Since(start), the
\* interceptor is installed as c.Writer, and the handler is entered.
LogResponseMiddleware(p) ==
  /\ pc[p] = "lr_start"
  /\ duration' = [duration EXCEPT ![p] = now - startTime[p]]
  /\ uuids' = IF requestID[p] = 0 THEN uuids + 1 ELSE uuids
  /\ requestID' = [requestID EXCEPT ![p] = IdOrNew(@)]
  /\ bodyWriter' = [bodyWriter EXCEPT ![p] = NewResponseWriter]
  /\ pc' = [pc EXCEPT ![p] = "handler"]
  /\ UNCHANGED <<metricsVars, recordVars, snapshotVars, historyVars>>
  /\ UNCHANGED <<now, reqMethod, startTime, requests, wcalls>>
  /\ UNCHANGED <<Body, ContentType, logged>>

\* The handler calls c.Writer.WriteHeader(code).
WriteHeader(p, code) ==
  /\ pc[p] = "handler"
  /\ Len(wcalls[p]) < MaxWrites
  /\ bodyWriter' = [bodyWriter EXCEPT
                      ![p] = ResponseWriter_WriteHeader(@, code)]
  /\ wcalls' = [wcalls EXCEPT
                  ![p] = Append(@, [call |-> "WriteHeader", code |-> code,
                                    b |-> <<>>])]
  /\ UNCHANGED <<metricsVars, pc, recordVars, snapshotVars, historyVars>>
  /\ UNCHANGED <<now, reqMethod, startTime, duration, requests>>
  /\ UNCHANGED requestVars

\* The handler calls c.Writer.Write(b).
Write(p, b) ==
  /\ pc[p] = "handler"
  /\ Len(wcalls[p]) < MaxWrites
  /\ bodyWriter' = [bodyWriter EXCEPT ![p] = ResponseWriter_Write(@, b)]
  /\ wcalls' = [wcalls EXCEPT
                  ![p] = Append(@, [call |-> "Write", code |-> 0, b |-> b])]
  /\ UNCHANGED <<metricsVars, pc, recordVars, snapshotVars, historyVars>>
  /\ UNCHANGED <<now, reqMethod, startTime, duration, requests>>
  /\ UNCHANGED requestVars

\* The handler faults.  The panic leaves LogResponseMiddleware and
\* LogRequestMiddleware at their c.Next() and reaches safe.SafeGo, the fault
\* boundary, which calls the function of RecoveryMiddleware again, now with
\* the error.
Fault(p) ==
  /\ pc[p] = "handler"
  /\ pc' = [pc EXCEPT ![p] = "rc_fault"]
  /\ UNCHANGED <<metricsVars, recordVars, snapshotVars, historyVars>>
  /\ UNCHANGED chainVars

\* A recovery after which the rest of LogResponseMiddleware runs.
AfterRecover_Unwind(p) == "lr_add_total"

\* After c.Abort() and the return the request is over.
AfterRecover(p) == "rc_done"

\* RecoveryMiddleware with an error: the id of the context, or a new one
\* when there is none; LogError; c.JSON(500, ...), which calls WriteHeader
\* and Write on c.Writer, still the interceptor of the request; c.Abort().
Recover(p) ==
  LET id == IdOrNew(requestID[p])
      h == ResponseWriter_WriteHeader(bodyWriter[p], 500)
  IN /\ pc[p] = "rc_fault"
     /\ uuids' = IF requestID[p] = 0 THEN uuids + 1 ELSE uuids
     /\ logged' = [logged EXCEPT
                     ![p] = Append(@, Entry("LogError", id, 0, <<>>, 0))]
     /\ bodyWriter' = [bodyWriter EXCEPT
                         ![p] = ResponseWriter_Write(h, ErrorBody(id))]
     /\ wcalls' = [wcalls EXCEPT
                     ![p] = @ \o <<[call |-> "WriteHeader", code |-> 500,
                                    b |-> <<>>],
                                   [call |-> "Write", code |-> 0,
                                    b |-> ErrorBody(id)]>>]
     /\ pc' = [pc EXCEPT ![p] = AfterRecover(p)]
     /\ UNCHANGED <<metricsVars, recordVars, snapshotVars, historyVars>>
     /\ UNCHANGED <<now, reqMethod, startTime, duration, requests>>
     /\ UNCHANGED <<requestID, Body, ContentType>>

\* The response of the recovered request has been sent: its context and its
\* interceptor are not used again.
Finish(p) ==
  /\ pc[p] = "rc_done"
  /\ pc' = [pc EXCEPT ![p] = "idle"]
  /\ reqMethod' = [reqMethod EXCEPT ![p] = ""]
  /\ startTime' = [startTime EXCEPT ![p] = 0]
  /\ duration' = [duration EXCEPT ![p] = 0]
  /\ bodyWriter' = [bodyWriter EXCEPT ![p] = NewResponseWriter]
  /\ wcalls' = [wcalls EXCEPT ![p] = <<>>]
  /\ requestID' = [requestID EXCEPT ![p] = 0]
  /\ Body' = [Body EXCEPT ![p] = <<>>]
  /\ ContentType' = [ContentType EXCEPT ![p] = <<>>]
  /\ logged' = [logged EXCEPT ![p] = <<>>]
  /\ UNCHANGED <<metricsVars, recordVars, snapshotVars, historyVars>>
  /\ UNCHANGED <<now, requests, uuids>>

\* A return of the handler after which the response is not logged.
LogResponse_Skipped(p) ==
  /\ pc[p] = "handler"
  /\ pc' = [pc EXCEPT ![p] = "lr_add_total"]
  /\ UNCHANGED <<metricsVars, recordVars, snapshotVars, historyVars>>
  /\ UNCHANGED chainVars

\* The handler returns: c.Next() returns into LogResponseMiddleware, which
\* builds the entry and logs the response.
LogResponse(p) ==
  /\ pc[p] = "handler"
  /\ logged' = [logged EXCEPT
                  ![p] = Append(@, Entry("LogResponse", requestID[p],
                                         bodyWriter[p].statusCode,
                                         compactJSON(bodyWriter[p].body),
                                         duration[p]))]
  /\ pc' = [pc EXCEPT ![p] = "lr_add_total"]
  /\ UNCHANGED <<metricsVars, recordVars, snapshotVars, historyVars>>
  /\ UNCHANGED <<now, reqMethod, startTime, duration, bodyWriter, requests,
                 wcalls>>
  /\ UNCHANGED <<uuids, requestID, Body, ContentType>>

\* atomic.AddUint64(&metrics.TotalRequests, 1)
AddTotalRequests(p) ==
  /\ pc[p] = "lr_add_total"
  /\ TotalRequests' = TotalRequests + 1
  /\ pc' = [pc EXCEPT ![p] = "lr_add_duration"]
  /\ UNCHANGED <<ErrorCount, TotalLatency, MinLatency, MaxLatency,
                 MethodCounts, StatusCodeCounts, mu, TotalDuration>>
  /\ UNCHANGED <<recordVars, snapshotVars, historyVars, chainVars>>

\* atomic.AddUint64(&metrics.TotalDuration, uint64(duration.Milliseconds()))
AddTotalDuration(p) ==
  /\ pc[p] = "lr_add_duration"
  /\ TotalDuration' = TotalDuration + Milliseconds(duration[p])
  /\ pc' = [pc EXCEPT ![p] = "lr_record"]
  /\ UNCHANGED <<TotalRequests, ErrorCount, TotalLatency, MinLatency,
                 MaxLatency, MethodCounts, StatusCodeCounts, mu>>
  /\ UNCHANGED <<recordVars, snapshotVars, historyVars, chainVars>>

\* metrics.RecordRequest(c.Request.Method, bodyWriter.statusCode, duration),
\* the last statement of the chain: the context and the interceptor of the
\* request are not used again.
RecordMetrics(p) ==
  /\ pc[p] = "lr_record"
  /\ EnterRecordRequest(p, reqMethod[p], bodyWriter[p].statusCode,
                        duration[p])
  /\ reqMethod' = [reqMethod EXCEPT ![p] = ""]
  /\ startTime' = [startTime EXCEPT ![p] = 0]
  /\ duration' = [duration EXCEPT ![p] = 0]
  /\ bodyWriter' = [bodyWriter EXCEPT ![p] = NewResponseWriter]
  /\ wcalls' = [wcalls EXCEPT ![p] = <<>>]
  /\ requestID' = [requestID EXCEPT ![p] = 0]
  /\ Body' = [Body EXCEPT ![p] = <<>>]
  /\ ContentType' = [ContentType EXCEPT ![p] = <<>>]
  /\ logged' = [logged EXCEPT ![p] = <<>>]
  /\ UNCHANGED <<ErrorCount, TotalLatency, MinLatency, MaxLatency,
                 MethodCounts, StatusCodeCounts, mu, TotalDuration>>
  /\ UNCHANGED <<latencyMs, current, snapshotVars, snapshots>>
  /\ UNCHANGED <<now, requests, uuids>>

\* ------------------------------------------------------------ specification
\* One step of goroutine p inside RecordRequest.
RecordStep(p) ==
  \/ AddErrorCount(p)
  \/ AddTotalLatency(p)
  \/ LoadMinLatency(p)
  \/ CasMinLatency(p)
  \/ LoadMaxLatency(p)
  \/ CasMaxLatency(p)
  \/ Lock(p)
  \/ IncMethodCounts(p)
  \/ IncStatusCodeCounts(p)
  \/ Unlock(p)

\* One step of goroutine p inside GetMetrics.
SnapshotStep(p) ==
  \/ RLock(p)
  \/ CopyMethodCounts(p)
  \/ CopyStatusCodeCounts(p)
  \/ RUnlock(p)
  \/ LoadTotalRequests(p)
  \/ LoadTotalDuration(p)
  \/ ReturnMetrics(p)

\* One step of goroutine p inside a call it has begun.
Step(p) == RecordStep(p) \/ SnapshotStep(p)

\* A goroutine begins a RecordRequest call, with any arguments.
CallRecordRequest(p) ==
  \E m \in Methods, s \in StatusCodes, d \in Durations :
    RecordRequest(p, m, s, d)

\* Goroutines that call RecordRequest and GetMetrics directly.
Next == \E p \in Procs : CallRecordRequest(p) \/ GetMetrics(p) \/ Step(p)

Spec == Init /\ [][Next]_vars

\* The same goroutines, issuing at most LiveCalls RecordRequest calls, under
\* the Go scheduler, which runs every runnable goroutine eventually.
LiveNext ==
  \E p \in Procs :
    \/ NumIssued < LiveCalls /\ CallRecordRequest(p)
    \/ GetMetrics(p)
    \/ Step(p)

FairSpec == Init /\ [][LiveNext]_vars /\ \A p \in Procs : WF_vars(Step(p))

\* One step of goroutine p in the stages of the chain around the handler.
StageStep(p) ==
  \/ LogRequestMiddleware(p)
  \/ LogResponseMiddleware(p)
  \/ Fault(p)
  \/ Recover(p)
  \/ Finish(p)
  \/ LogResponse(p)
  \/ AddTotalRequests(p)
  \/ AddTotalDuration(p)
  \/ RecordMetrics(p)

\* One step of the request served by goroutine p: a request with no body
\* and no Content-Type header, and a handler that writes a response.
ChainStep(p) ==
  \/ \E m \in Methods : RecoveryMiddleware(p, m, <<>>, <<>>)
  \/ StageStep(p)
  \/ \E code \in Codes : WriteHeader(p, code)
  \/ \E b \in Chunks : Write(p, b)

\* Requests served concurrently by the chain RecoveryMiddleware,
\* LogRequestMiddleware, LogResponseMiddleware, handler; nothing else
\* touches the global Metrics.
ChainNext == Tick \/ \E p \in Procs : ChainStep(p) \/ RecordStep(p)

ChainSpec == Init /\ [][ChainNext]_vars

\* One step of a POST request with a body, served by goroutine p with a
\* handler that writes a status and no bytes.
UploadStep(p) ==
  \/ \E b \in Bodies, ct \in ContentTypes :
       RecoveryMiddleware(p, "POST", b, ct)
  \/ \E code \in Codes : WriteHeader(p, code)
  \/ StageStep(p)

\* Requests with bodies, served concurrently by the same chain.
UploadNext == Tick \/ \E p \in Procs : UploadStep(p) \/ RecordStep(p)

UploadSpec == Init /\ [][UploadNext]_vars

\* ================================================================ claims
\* No RecordRequest call is in flight.
Quiescent == \A p \in Procs : ~InRecord(p)

\* Number of RecordRequest calls that have returned.
NumCompleted == NumIssued - Cardinality({p \in Procs : InRecord(p)})

\* The latencies of the calls issued so far, in whole milliseconds.
IssuedMs == {Milliseconds(i[3]) : i \in DOMAIN issued}

RECURSIVE SumMs(_)
SumMs(S) ==
  IF S = {} THEN 0
  ELSE LET i == CHOOSE x \in S : TRUE
       IN issued[i] * Milliseconds(i[3]) + SumMs(S \ {i})

MinOf(S) == CHOOSE x \in S : \A y \in S : x <= y
MaxOf(S) == CHOOSE x \in S : \A y \in S : x >= y

\* C1: once all N concurrent RecordRequest calls on a fresh Metrics have
\* completed, TotalRequests, the sum of MethodCounts and the sum of
\* StatusCodeCounts all equal N, and TotalLatency is the sum of the N
\* latencies in whole milliseconds: no increment is lost.
C1_NoLostIncrement ==
  Quiescent =>
    /\ TotalRequests = NumIssued
    /\ MapSum(MethodCounts) = NumIssued
    /\ MapSum(StatusCodeCounts) = NumIssued
    /\ TotalLatency = SumMs(DOMAIN issued)

\* MaxCalls calls, two of them with the same method and a latency that is not
\* a whole number of milliseconds, have all completed.
C1_Witness ==
  /\ Quiescent
  /\ NumIssued = MaxCalls
  /\ \E i \in DOMAIN issued : issued[i] >= 2 /\ i[3] = DurStep
  /\ TotalLatency >= 2

\* C2: once N >= 1 RecordRequest calls on a fresh Metrics have completed,
\* with latencies of any whole number of milliseconds including 0,
\* MinLatency is the minimum of the N latencies.
C2_MinIsMinimum ==
  (Quiescent /\ NumIssued >= 1) => MinLatency = MinOf(IssuedMs)

\* C3: once N >= 1 concurrent RecordRequest calls have completed, MaxLatency
\* is the maximum of the N latencies; and a call that has left the MaxLatency
\* loop, whatever compare-and-swap failed on its way, has left a maximum no
\* smaller than its own latency.
C3_MaxIsMaximum ==
  /\ (Quiescent /\ NumIssued >= 1) => MaxLatency = MaxOf(IssuedMs)
  /\ \A p \in Procs :
       pc[p] \in {"rr_lock", "rr_method", "rr_status", "rr_unlock"}
         => MaxLatency >= latencyMs[p]

\* A call with a latency below the maximum is past its MaxLatency loop while
\* another call is still in flight, and the maximum is the largest latency of
\* the model.
C3_Witness ==
  /\ MaxLatency = Milliseconds(MaxDur * DurStep)
  /\ \E p, q \in Procs :
       /\ p # q
       /\ pc[p] = "rr_lock"
       /\ latencyMs[p] > 0
       /\ latencyMs[p] < MaxLatency
       /\ InRecord(q)

\* C4: whenever at least two RecordRequest calls have completed, with others
\* possibly in flight, MinLatency <= MaxLatency.
C4_MinBelowMax == NumCompleted >= 2 => MinLatency <= MaxLatency

\* Some call is in flight.
InCall(p) == InRecord(p) \/ InSnapshot(p)

\* The statements RecordRequest runs with mu locked, and those GetMetrics
\* runs with mu read-locked.
WriterSection == {"rr_method", "rr_status", "rr_unlock"}
ReaderSection == {"gm_copy_method", "gm_copy_status", "gm_runlock"}

\* C5: with finitely many concurrent RecordRequest and GetMetrics callers the
\* system never deadlocks (while a call is in flight some goroutine can take
\* a step), mu is held only across the two map increments of RecordRequest
\* and the two map copies of GetMetrics, and under fair scheduling every call
\* returns and the mutex is released by the writer and by all readers.
C5_EveryCallReturns ==
  /\ []((\E p \in Procs : InCall(p)) => \E p \in Procs : ENABLED Step(p))
  /\ [](/\ mu.locked = (\E p \in Procs : pc[p] \in WriterSection)
        /\ mu.readers = Cardinality({p \in Procs : pc[p] \in ReaderSection}))
  /\ \A p \in Procs : InCall(p) ~> (pc[p] = "idle")
  /\ mu.locked ~> ~mu.locked
  /\ (mu.readers > 0) ~> (mu.readers = 0)

\* A compare-and-swap on MaxLatency is about to fail and be retried while
\* the other goroutine holds the mutex.
C5_Witness ==
  \E p, q \in Procs :
    /\ pc[p] = "rr_max_cas"
    /\ current[p] # MaxLatency
    /\ pc[q] \in {"rr_method", "rr_status", "rr_unlock"}
    /\ mu.locked

\* No request is in the chain or in RecordRequest.
AllServed == \A p \in Procs : pc[p] = "idle"

\* C6: after N requests have completed LogResponseMiddleware with
\* non-faulting handlers and nothing else has touched the global Metrics,
\* TotalRequests, the sum of MethodCounts and the sum of StatusCodeCounts all
\* equal N: each completed request is counted exactly once.
C6_CountedOnce ==
  AllServed =>
    /\ TotalRequests = requests
    /\ MapSum(MethodCounts) = requests
    /\ MapSum(StatusCodeCounts) = requests

\* The result of GetMetrics on a Metrics that has recorded nothing.
FreshResult ==
  [total_requests |-> 0,
   method_counts |-> EmptyMap,
   status_code_counts |-> EmptyMap,
   average_duration_ms |-> 0]

\* C7: GetMetrics on a fresh Metrics, before any request has been recorded,
\* does not fault and returns total_requests 0, average_duration_ms 0 and
\* two empty maps.
C7_FreshSnapshot ==
  \A p \in Procs : (result[p] # NoResult /\ NumIssued = 0)
                      => result[p] = FreshResult

\* A goroutine holds the result of a GetMetrics call, and no RecordRequest
\* call has been issued.
C7_Witness == \E p \in Procs : result[p] # NoResult /\ NumIssued = 0

\* C8: when GetMetrics runs on a Metrics with N >= 1 completed RecordRequest
\* calls and none in flight, average_duration_ms is TotalLatency divided by
\* TotalRequests (integer division); for N = 0 it is 0.
C8_AverageIsMean ==
  [][\A p \in Procs :
       (pc[p] = "gm_return" /\ pc'[p] = "idle" /\ quiet[p])
         => result'[p].average_duration_ms =
              IF TotalRequests = 0 THEN 0 ELSE TotalLatency \div TotalRequests
    ]_vars

\* C9: every result of GetMetrics is one single state of the aggregator
\* between complete RecordRequest calls: its total_requests equals the sum of
\* its method_counts and the sum of its status_code_counts.
C9_PointInTime ==
  \A p \in Procs :
    result[p] # NoResult
      => /\ result[p].total_requests = MapSum(result[p].method_counts)
         /\ result[p].total_requests = MapSum(result[p].status_code_counts)

\* C9, amended: in every result of GetMetrics the two maps are one single
\* state of the maps (their sums agree), and total_requests is at least that
\* sum: it also counts the calls that had not reached the maps when the maps
\* were copied.
C9_SnapshotBounds ==
  \A p \in Procs :
    result[p] # NoResult
      => /\ MapSum(result[p].method_counts)
              = MapSum(result[p].status_code_counts)
         /\ result[p].total_requests >= MapSum(result[p].method_counts)

\* A result whose total_requests exceeds the sum of its non-empty maps.
C9_Witness ==
  \E p \in Procs :
    /\ result[p] # NoResult
    /\ MapSum(result[p].method_counts) >= 1
    /\ result[p].total_requests > MapSum(result[p].method_counts)

\* The status code fixed by the first call on an interceptor: the code of a
\* WriteHeader call, 200 for a Write call.
FirstCode(h) == IF h[1].call = "WriteHeader" THEN h[1].code ELSE 200

\* C10: whatever sequence of WriteHeader and Write calls is made on one
\* interceptor, its statusCode is the one fixed by the first call (the code of
\* a first WriteHeader, 200 after a first Write), later calls change neither
\* statusCode nor wroteHeader, and the underlying writer has received
\* WriteHeader once, with that code; before the first call it has received
\* none.
C10_StatusWrittenOnce ==
  \A p \in Procs :
    LET w == bodyWriter[p]
        h == wcalls[p]
    IN IF h = <<>>
       THEN /\ ~w.wroteHeader
            /\ w.statusCode = 0
            /\ w.ResponseWriter.headers = <<>>
       ELSE /\ w.wroteHeader
            /\ w.statusCode = FirstCode(h)
            /\ w.ResponseWriter.headers = <<FirstCode(h)>>

\* A handler has called Write and then WriteHeader with another code than
\* the 200 that the Write recorded.
C10_Witness ==
  \E p \in Procs :
    /\ Len(wcalls[p]) = 2
    /\ wcalls[p][1].call = "Write"
    /\ wcalls[p][2].call = "WriteHeader"
    /\ wcalls[p][2].code # 200
    /\ bodyWriter[p].statusCode = 200

\* The bytes of the Write calls of a history, concatenated in call order.
RECURSIVE Written(_)
Written(h) ==
  IF h = <<>> THEN <<>>
  ELSE (IF Head(h).call = "Write" THEN Head(h).b ELSE <<>>) \o Written(Tail(h))

\* C11: whatever Write and WriteHeader calls are made on one interceptor, the
\* bytes forwarded to the underlying writer and the bytes in the interceptor's
\* buffer are both the concatenation, in call order, of the slices passed to
\* Write; WriteHeader calls add nothing to either.
C11_BytesForwarded ==
  \A p \in Procs :
    /\ bodyWriter[p].body = Written(wcalls[p])
    /\ bodyWriter[p].ResponseWriter.bytes = Written(wcalls[p])

\* A handler has called WriteHeader and then Write, or Write twice with two
\* different slices.
C11_Witness ==
  /\ \E p \in Procs :
       /\ Len(wcalls[p]) = 2
       /\ wcalls[p][2].call = "Write"
       /\ wcalls[p][1] # wcalls[p][2]
       /\ bodyWriter[p].body # <<>>

\* The issued calls whose status code is 400 or more.
RECURSIVE CountErrors(_)
CountErrors(S) ==
  IF S = {} THEN 0
  ELSE LET i == CHOOSE x \in S : TRUE
       IN (IF i[2] >= 400 THEN issued[i] ELSE 0) + CountErrors(S \ {i})

\* C17: once all concurrent RecordRequest calls have completed, ErrorCount is
\* the number of those calls whose statusCode was 400 or more (a call with
\* 399 or less never increments it); and in every reachable state
\* ErrorCount <= TotalRequests.
C17_ErrorCount ==
  /\ Quiescent => ErrorCount = CountErrors(DOMAIN issued)
  /\ ErrorCount <= TotalRequests

\* All MaxCalls calls have completed, some with status 399 and some with 400.
C17_Witness ==
  /\ Quiescent
  /\ NumIssued = MaxCalls
  /\ \E i, j \in DOMAIN issued : i[2] = 399 /\ j[2] = 400
  /\ ErrorCount >= 1

\* C19: in every result of GetMetrics, taken at any moment and with any
\* RecordRequest calls in flight, the sum of method_counts equals the sum of
\* status_code_counts.
C19_MapSumsAgree ==
  \A p \in Procs :
    result[p] # NoResult
      => MapSum(result[p].method_counts)
           = MapSum(result[p].status_code_counts)

\* A result with non-empty maps is in hand while another goroutine is inside
\* the critical section of RecordRequest, between the two increments.
C19_Witness ==
  \E p, q \in Procs :
    /\ result[p] # NoResult
    /\ MapSum(result[p].method_counts) >= 1
    /\ pc[q] = "rr_status"

\* C20: in every result of GetMetrics taken with RecordRequest calls in
\* flight, total_requests is at least the sum of method_counts: no request is
\* in the tallies and missing from the total.
C20_TotalCoversMaps ==
  \A p \in Procs :
    result[p] # NoResult
      => result[p].total_requests >= MapSum(result[p].method_counts)

\* A result whose total_requests is two more than the sum of its maps: two
\* calls had begun and reached the maps neither.
C20_Witness ==
  \E p \in Procs :
    /\ result[p] # NoResult
    /\ result[p].total_requests >= MapSum(result[p].method_counts) + 2

\* The Logger calls made for the request of p, by name and in order.
Events(p) == [i \in 1..Len(logged[p]) |-> logged[p][i].ev]

\* The Logger calls made for the request of p with the name ev.
Calls(p, ev) == {i \in 1..Len(logged[p]) : logged[p][i].ev = ev}

\* C12: for every request whose handler faults, whatever the handler had
\* written before, the recovery stage produces the status 500 and the fixed
\* body with a non-empty request_id, and calls LogError exactly once, with
\* that id: the id of the context when there is one.
C12_FixedErrorResponse ==
  \A p \in Procs :
    pc[p] = "rc_done"
      => /\ requestID[p] # 0
         /\ bodyWriter[p].ResponseWriter.headers = <<500>>
         /\ bodyWriter[p].ResponseWriter.bytes = ErrorBody(requestID[p])
         /\ Cardinality(Calls(p, "LogError")) = 1
         /\ \A i \in Calls(p, "LogError") :
              logged[p][i].RequestID = requestID[p]

\* C13: for every request that does not fault, the elapsed time in the
\* response log entry and the latency passed on to RecordRequest are measured
\* when the handler has returned, from the start time the request-log stage
\* stored: they include the time the handler took.
C13_ElapsedAfterHandler ==
  [][\A p \in Procs :
       pc[p] = "handler" /\ pc'[p] = "lr_add_total"
         => /\ logged'[p][Len(logged'[p])].ProcessTime = now - startTime[p]
            /\ duration'[p] = now - startTime[p]]_vars

\* The Logger calls a request has made when it is at a position of the chain.
EventsAt(l) ==
  IF l \in {"lr_start", "handler", "rc_fault"} THEN <<"LogRequest">>
  ELSE IF l \in {"lr_add_total", "lr_add_duration", "lr_record"}
  THEN <<"LogRequest", "LogResponse">>
  ELSE IF l = "rc_done" THEN <<"LogRequest", "LogError">>
  ELSE <<>>

\* The request of every goroutine has made the Logger calls of its position,
\* and a handler has run only with the interceptor installed.
InOrder ==
  \A p \in Procs :
    /\ Events(p) = EventsAt(pc[p])
    /\ pc[p] \in {"idle", "lq_start", "lr_start"}
         => wcalls[p] = <<>> /\ bodyWriter[p] = NewResponseWriter

\* C14: within one request that does not fault, each of these happens once
\* and in this order: LogRequest is emitted, the request-log stage invokes
\* the next stage (always), the interceptor is installed, the handler runs,
\* LogResponse is emitted, RecordRequest is called.  Requests are not ordered
\* among each other.
C14_StageOrder ==
  [][/\ InOrder'
     /\ \A p \in Procs :
          /\ pc[p] = "lq_start" /\ pc'[p] # pc[p] => pc'[p] = "lr_start"
          /\ pc[p] = "lr_start" /\ pc'[p] # pc[p] => pc'[p] = "handler"
          /\ pc[p] = "handler" /\ pc'[p] # pc[p]
               => pc'[p] \in {"lr_add_total", "rc_fault"}
          /\ pc[p] = "lr_add_total" /\ pc'[p] # pc[p]
               => pc'[p] = "lr_add_duration"
          /\ pc[p] = "lr_add_duration" /\ pc'[p] # pc[p]
               => pc'[p] = "lr_record"
          /\ pc[p] = "lr_record" /\ pc'[p] # pc[p]
               => InRecord(p)' /\ NumIssued' = NumIssued + 1
     /\ issued' # issued => \E p \in Procs : pc[p] = "lr_record" /\ InRecord(p)'
    ]_vars

\* A request whose handler has written and returned is about to call
\* RecordRequest while a request that arrived earlier (it has the smaller
\* id) is still before its handler.
C14_Witness ==
  \E p, q \in Procs :
    /\ pc[p] = "lr_record"
    /\ wcalls[p] # <<>>
    /\ Events(p) = <<"LogRequest", "LogResponse">>
    /\ pc[q] = "lr_start"
    /\ requestID[q] < requestID[p]

\* The entries of a request carry the id of its context, which is one the
\* source has handed out, and no two requests in the chain have the same id.
OneID ==
  \A p \in Procs :
    /\ logged[p] # <<>> => requestID[p] \in 1..uuids
    /\ \A i \in 1..Len(logged[p]) : logged[p][i].RequestID = requestID[p]
    /\ pc[p] = "rc_done"
         => wcalls[p][Len(wcalls[p])].b = ErrorBody(requestID[p])
    /\ \A q \in Procs \ {p} : requestID[p] # 0 => requestID[q] # requestID[p]

\* C15: the request log entry, the response log entry and, on a fault, the
\* LogError call and the request_id of the error body all carry one
\* correlation id, the one the request-log stage generated and stored under
\* "requestID"; the response-log stage and the recovery stage generate an id
\* only when the context holds none; and with a source of unique ids no two
\* requests have the same id.
C15_OneCorrelationID ==
  [][/\ OneID'
     /\ \A p \in Procs :
          /\ requestID'[p] \notin {0, requestID[p]}
               => requestID[p] = 0 /\ requestID'[p] > uuids
          /\ (/\ pc[p] \in {"lr_start", "rc_fault"}
              /\ pc'[p] # pc[p]
              /\ requestID[p] # 0)
               => uuids' = uuids /\ requestID'[p] = requestID[p]
    ]_vars

\* A faulted request has logged its error and written the error body with
\* the second id handed out, while the request with the first id has logged
\* its response.
C15_Witness ==
  \E p, q \in Procs :
    /\ pc[p] = "rc_done"
    /\ requestID[p] = 2
    /\ Events(q) = <<"LogRequest", "LogResponse">>
    /\ requestID[q] = 1

\* C16: the body a handler can read after the request-log stage is the
\* inbound body.  With a Content-Type that begins with multipart/form-data
\* the request is logged with an empty body field; otherwise the body is
\* logged compacted: the array with a space outside and a space inside its
\* string is logged with the inside space only.
C16_BodyPreserved ==
  [][\A p \in Procs :
       pc[p] = "lq_start" /\ pc'[p] = "lr_start"
         => /\ Body'[p] = Body[p]
            /\ Len(logged'[p]) = 1
            /\ logged'[p][1].Text
                 = IF HasPrefix(ContentType[p], <<"multipart/form-data">>)
                   THEN <<>>
                   ELSE compactJSON(Body[p])
            /\ (/\ ~HasPrefix(ContentType[p], <<"multipart/form-data">>)
                /\ Body[p] = <<LeftBracket, Space, Quote, Space, Quote,
                               RightBracket>>)
               => logged'[p][1].Text
                    = <<LeftBracket, Quote, Space, Quote, RightBracket>>
            /\ (/\ ~HasPrefix(ContentType[p], <<"multipart/form-data">>)
                /\ Body[p] = <<Letter, Space, Letter>>)
               => logged'[p][1].Text = Body[p]]_vars

\* A multipart upload with a boundary and a body has been logged with an
\* empty body field and its body is still to be read, while a JSON request
\* has been logged compacted.
C16_Witness ==
  \E p, q \in Procs :
    /\ pc[p] = "lr_start"
    /\ Len(ContentType[p]) = 2
    /\ Body[p] # <<>>
    /\ logged[p][1].Text = <<>>
    /\ pc[q] = "lr_start"
    /\ Len(ContentType[q]) = 1
    /\ Body[q] # <<>>
    /\ logged[q][1].Text # Body[q]

\* C18: once the recovery stage has caught a fault, nothing more of the chain
\* runs for the request: the handler is not run again, no response is logged
\* and RecordRequest is not called; as no step of a request before the return
\* of its handler touches the shared Metrics, the request leaves every
\* counter as it was.
C18_NothingAfterFault ==
  [][\A p \in Procs :
       /\ pc[p] \in {"rc_fault", "rc_done"} /\ pc'[p] # pc[p]
            => /\ pc'[p] \in {"rc_done", "idle"}
               /\ Calls(p, "LogResponse")' = {}
       /\ (/\ pc[p] \in {"idle", "lq_start", "lr_start", "handler",
                         "rc_fault", "rc_done"}
           /\ (pc'[p] # pc[p] \/ wcalls'[p] # wcalls[p]))
            => UNCHANGED <<metricsVars, issued>>]_vars

\* Every request of the behaviour has faulted and been answered: none has
\* called RecordRequest and the Metrics are as NewMetrics made them.
C18_Witness ==
  /\ \A p \in Procs : pc[p] = "idle"
  /\ requests = MaxRequests
  /\ NumIssued = 0
  /\ NewMetrics

====
